---------------------------- MODULE Spec2Model ----------------------------
(***************************************************************************)
(* pngchat: the chunk codec (src/src/chunk.rs, src/src/chunk_type.rs,      *)
(* src/src/utils.rs), the chunk sequence (Png) and the commands that use   *)
(* it (src/src/commands.rs).                                               *)
(*                                                                         *)
(* Representation.                                                         *)
(*   u8      a number in 0..255                                            *)
(*   &[u8]   a sequence of u8 (Rust index i is TLA+ index i+1)             *)
(*   u32     the set of the positions (0..31) of its one-bits, so that the *)
(*           32-bit xor/shift arithmetic of the CRC is exact               *)
(*   String  a sequence of Unicode code points                             *)
(*   Result  [tag |-> "Ok", val |-> v], [tag |-> "Err", err |-> message],  *)
(*           or [tag |-> "Panic", at |-> place] when the call aborts       *)
(*   Option  [some |-> TRUE, val |-> v] or [some |-> FALSE]                *)
(***************************************************************************)
EXTENDS Naturals, Sequences, FiniteSets

VARIABLES
    pc,      \* position of the codec exercise / of the session
    bytes,   \* the byte slice handed to Chunk::try_from
    chunk,   \* Option<Chunk>: the chunk built by Chunk::new
    parsed,  \* Option<Result<Chunk>>: what Chunk::try_from returned
    file,    \* the bytes of the PNG file
    png,     \* Option<Png>: the chunk sequence held in memory
    last     \* the last operation on the sequence, its inputs and its result

vars == <<pc, bytes, chunk, parsed, file, png, last>>

----------------------------------------------------------------------------
(* Result and Option values *)

Ok(v) == [tag |-> "Ok", val |-> v]

Err(e) == [tag |-> "Err", err |-> e]

Panic(p) == [tag |-> "Panic", at |-> p]

Some(v) == [some |-> TRUE, val |-> v]

None == [some |-> FALSE]

(* Error::Custom messages of the source *)
ErrLength == "Chunk contains incorrect length information"

ErrCrc == "CRC checksum fails"

ErrAscii == "Invalid ascii character, must be alphabetic"

ErrTypeLen == "Invalid length of chunk"

----------------------------------------------------------------------------
(* u32 arithmetic *)

CHUNK_SIZE == 4

Pow2(n) == IF n = 0 THEN 1 ELSE 2 ^ n

\* the one-bits of a byte
ByteBits(b) == {i \in 0..7 : (b \div Pow2(i)) % 2 = 1}

\* the byte made of bits 8k..8k+7 of the u32 u
ByteOf(u, k) ==
    LET bit(i) == IF (8 * k + i) \in u THEN Pow2(i) ELSE 0
    IN  bit(0) + bit(1) + bit(2) + bit(3) + bit(4) + bit(5) + bit(6) + bit(7)

\* u32::to_be_bytes: most significant byte first
to_be_bytes(u) == <<ByteOf(u, 3), ByteOf(u, 2), ByteOf(u, 1), ByteOf(u, 0)>>

\* u32::from_be_bytes
from_be_bytes(a) ==
    UNION {{8 * (CHUNK_SIZE - k) + i : i \in ByteBits(a[k])} : k \in 1..CHUNK_SIZE}

RECURSIVE SumPow(_)
SumPow(u) ==
    IF u = {} THEN 0
    ELSE LET i == CHOOSE j \in u : TRUE IN Pow2(i) + SumPow(u \ {i})

\* `x as usize` of a u32 x (64-bit usize: value preserved)
as_usize(u) == SumPow(u)

RECURSIVE NatBits(_, _)
NatBits(n, i) ==
    IF n = 0 \/ i > 31 THEN {}
    ELSE (IF n % 2 = 1 THEN {i} ELSE {}) \cup NatBits(n \div 2, i + 1)

\* `n as u32` of a usize n: the low 32 bits
as_u32(n) == NatBits(n, 0)

----------------------------------------------------------------------------
(* CRC-32/ISO-HDLC (crc::CRC_32_ISO_HDLC): reflected polynomial 0xEDB88320, *)
(* initial value 0xFFFFFFFF, final xor 0xFFFFFFFF.                         *)

CrcPoly == {31, 30, 29, 27, 26, 24, 23, 21, 20, 19, 15, 9, 8, 5}

Xor(a, b) == (a \ b) \cup (b \ a)

Shr1(a) == {i - 1 : i \in a \ {0}}

\* one step of the bitwise (reflected) algorithm
CrcStep(c) == IF 0 \in c THEN Xor(Shr1(c), CrcPoly) ELSE Shr1(c)

\* the table of the byte-wise algorithm: eight steps on each byte value
CrcTable ==
    [n \in 0..255 |->
        CrcStep(CrcStep(CrcStep(CrcStep(CrcStep(CrcStep(CrcStep(CrcStep(
            ByteBits(n)))))))))]

Shr8(a) == {i - 8 : i \in a \ (0..7)}

RECURSIVE CrcUpdate(_, _, _)
\* the 32-bit register c after the bytes of data from index i on
CrcUpdate(c, data, i) ==
    IF i > Len(data) \/ ~(c \subseteq 0..31) THEN c
    ELSE CrcUpdate(Xor(Shr8(c), CrcTable[ByteOf(Xor(c, ByteBits(data[i])), 0)]),
                   data, i + 1)

checksum_32(data) == Xor(CrcUpdate(0..31, data, 1), 0..31)

----------------------------------------------------------------------------
(* Strings *)

\* char::is_ascii_alphabetic, on a code point or on a byte cast to char
is_ascii_alphabetic(c) == c \in 65..90 \/ c \in 97..122

\* char::is_uppercase / is_lowercase on a byte cast to char (U+0000..U+00FF)
is_uppercase(c) == c \in 65..90 \/ c \in 192..214 \/ c \in 216..222

is_lowercase(c) ==
    c \in 97..122 \/ c \in {170, 181, 186} \/ c \in 223..246 \/ c \in 248..255

\* the UTF-8 encoding of one code point
Utf8(c) ==
    IF c < 128 THEN <<c>>
    ELSE IF c < 2048 THEN <<192 + (c \div 64), 128 + (c % 64)>>
    ELSE IF c < 65536 THEN
        <<224 + (c \div 4096), 128 + ((c \div 64) % 64), 128 + (c % 64)>>
    ELSE <<240 + (c \div 262144), 128 + ((c \div 4096) % 64),
           128 + ((c \div 64) % 64), 128 + (c % 64)>>

RECURSIVE str_bytes(_)
\* str::bytes / str::as_bytes
str_bytes(s) == IF s = <<>> THEN <<>> ELSE Utf8(Head(s)) \o str_bytes(Tail(s))

\* str::len: the length in bytes
str_len(s) == Len(str_bytes(s))

IsCont(b) == b \in 128..191

\* the number of bytes of the well-formed UTF-8 sequence that starts at b[i],
\* 0 when there is none
Utf8Width(b, i) ==
    LET n == Len(b)
        c0 == b[i]
        c1 == IF i + 1 <= n THEN b[i + 1] ELSE 0
        c2 == IF i + 2 <= n THEN b[i + 2] ELSE 0
        c3 == IF i + 3 <= n THEN b[i + 3] ELSE 0
    IN  IF c0 < 128 THEN 1
        ELSE IF c0 \in 194..223 /\ IsCont(c1) THEN 2
        ELSE IF c0 = 224 /\ c1 \in 160..191 /\ IsCont(c2) THEN 3
        ELSE IF c0 \in ((225..236) \cup {238, 239}) /\ IsCont(c1) /\ IsCont(c2) THEN 3
        ELSE IF c0 = 237 /\ c1 \in 128..159 /\ IsCont(c2) THEN 3
        ELSE IF c0 = 240 /\ c1 \in 144..191 /\ IsCont(c2) /\ IsCont(c3) THEN 4
        ELSE IF c0 \in 241..243 /\ IsCont(c1) /\ IsCont(c2) /\ IsCont(c3) THEN 4
        ELSE IF c0 = 244 /\ c1 \in 128..143 /\ IsCont(c2) /\ IsCont(c3) THEN 4
        ELSE 0

Utf8CodePoint(b, i, w) ==
    IF w = 1 THEN b[i]
    ELSE IF w = 2 THEN (b[i] - 192) * 64 + (b[i + 1] - 128)
    ELSE IF w = 3 THEN
        (b[i] - 224) * 4096 + (b[i + 1] - 128) * 64 + (b[i + 2] - 128)
    ELSE (b[i] - 240) * 262144 + (b[i + 1] - 128) * 4096
         + (b[i + 2] - 128) * 64 + (b[i + 3] - 128)

\* the positions of b where a character starts: UTF-8 is self-synchronizing,
\* every byte that is no continuation byte starts a sequence
Utf8Starts(b) == {i \in 1..Len(b) : ~IsCont(b[i])}

\* b is a run of well-formed sequences, each ending where the next one starts
Utf8Valid(b) ==
    /\ Len(b) > 0 => 1 \in Utf8Starts(b)
    /\ \A i \in Utf8Starts(b) :
          /\ Utf8Width(b, i) > 0
          /\ i + Utf8Width(b, i) \in Utf8Starts(b) \cup {Len(b) + 1}

\* the characters of b in order, or the decoding error
Utf8Decode(b) ==
    LET starts == Utf8Starts(b)
        nth(k) == CHOOSE i \in starts : Cardinality({j \in starts : j < i}) = k - 1
    IN  IF Utf8Valid(b)
        THEN Ok([k \in 1..Cardinality(starts) |->
                    Utf8CodePoint(b, nth(k), Utf8Width(b, nth(k)))])
        ELSE Err("Utf8Error")

\* str::from_utf8 / String::from_utf8
from_utf8(b) == Utf8Decode(b)

----------------------------------------------------------------------------
(* ChunkType: a 4-byte array *)

ChunkType_bytes(t) == t

\* char::is_alphabetic (Unicode) on the code points the inputs use
is_alphabetic(c) ==
    is_ascii_alphabetic(c) \/ c = 170 \/ c = 181 \/ c = 186
        \/ c \in 192..214 \/ c \in 216..246 \/ c \in 248..255

\* ChunkType_from_str with the Unicode letter test in place of the ASCII one
ChunkType_from_str_unicode_letters(s) ==
    IF str_len(s) # CHUNK_SIZE THEN Err(ErrTypeLen)
    ELSE IF ~ \A i \in 1..Len(s) : is_alphabetic(s[i]) THEN Err(ErrAscii)
    ELSE Ok(str_bytes(s))

\* ChunkType_try_from storing the letters in upper case
ChunkType_try_from_uppercased(b) ==
    IF \A i \in 1..CHUNK_SIZE : is_ascii_alphabetic(b[i])
    THEN Ok([i \in 1..CHUNK_SIZE |-> IF b[i] \in 97..122 THEN b[i] - 32 ELSE b[i]])
    ELSE Err(ErrAscii)

ChunkType_try_from(b) ==
    IF \A i \in 1..CHUNK_SIZE : is_ascii_alphabetic(b[i])
    THEN Ok(b)
    ELSE Err(ErrAscii)

ChunkType_from_str(s) ==
    IF str_len(s) # CHUNK_SIZE THEN Err(ErrTypeLen)
    ELSE IF ~ \A i \in 1..Len(s) : is_ascii_alphabetic(s[i]) THEN Err(ErrAscii)
    ELSE Ok(str_bytes(s))

\* ChunkType::at_char: the byte at a Rust index, as a char
at_char(t, index) == t[index + 1]

ChunkType_is_critical(t) == is_uppercase(at_char(t, 0))

ChunkType_is_public(t) == is_uppercase(at_char(t, 1))

ChunkType_is_reserved_bit_valid(t) == is_uppercase(at_char(t, 2))

ChunkType_is_safe_to_copy(t) == is_lowercase(at_char(t, 3))

\* is_valid gated by the reserved bit alone
ChunkType_is_valid_reserved_only(t) == ChunkType_is_reserved_bit_valid(t)

ChunkType_is_valid(t) ==
    ~ChunkType_is_public(t) /\ ChunkType_is_reserved_bit_valid(t)

\* ChunkType_to_string with the letters folded to lower case
ChunkType_to_string_lowercase(t) ==
    from_utf8([i \in 1..Len(t) |-> IF t[i] \in 65..90 THEN t[i] + 32 ELSE t[i]])

\* Display for ChunkType (to_string)
ChunkType_to_string(t) == from_utf8(ChunkType_bytes(t))

----------------------------------------------------------------------------
(* Chunk: [length, chunk_type, chunk_data, crc] *)

\* utils::u8_4_from_slice: the array of the CHUNK_SIZE bytes of the slice; on a
\* slice of any other length `try_into().expect("Invalid slice length")`
\* aborts.  Chunk_try_from and ParseChunks pass slices of exactly CHUNK_SIZE
\* bytes, as chunk.rs does.
u8_4_from_slice(arr) ==
    IF Len(arr) # CHUNK_SIZE THEN Panic("Invalid slice length")
    ELSE [i \in 1..CHUNK_SIZE |-> arr[i]]

\* Chunk_new with the checksum taken over the payload alone
Chunk_new_crc_over_data(chunk_type, chunk_data) ==
    [length     |-> as_u32(Len(chunk_data)),
     chunk_type |-> chunk_type,
     chunk_data |-> chunk_data,
     crc        |-> checksum_32(chunk_data)]

\* Chunk_new with the type code counted into the length
Chunk_new_length_with_type(chunk_type, chunk_data) ==
    LET to_check == ChunkType_bytes(chunk_type) \o chunk_data
    IN  [length     |-> as_u32(Len(to_check)),
         chunk_type |-> chunk_type,
         chunk_data |-> chunk_data,
         crc        |-> checksum_32(to_check)]

Chunk_new(chunk_type, chunk_data) ==
    LET to_check == ChunkType_bytes(chunk_type) \o chunk_data
    IN  [length     |-> as_u32(Len(chunk_data)),
         chunk_type |-> chunk_type,
         chunk_data |-> chunk_data,
         crc        |-> checksum_32(to_check)]

\* Chunk_from_strings with each char of the text cast to one byte
Chunk_from_strings_chars_as_bytes(chunk_type, data) ==
    LET t == ChunkType_from_str(chunk_type)
    IN  IF t.tag = "Err" THEN t
        ELSE Ok(Chunk_new(t.val, [i \in 1..Len(data) |-> data[i] % 256]))

Chunk_from_strings(chunk_type, data) ==
    LET t == ChunkType_from_str(chunk_type)
    IN  IF t.tag = "Err" THEN t ELSE Ok(Chunk_new(t.val, str_bytes(data)))

Chunk_data_as_string(c) ==
    LET r == from_utf8(c.chunk_data)
    IN  IF r.tag = "Ok" THEN r ELSE Err("FromUtf8Error")

\* Chunk_as_bytes with the crc written before the payload
Chunk_as_bytes_crc_before_data(c) ==
    to_be_bytes(c.length) \o ChunkType_bytes(c.chunk_type)
        \o to_be_bytes(c.crc) \o c.chunk_data

\* Chunk_as_bytes with the length written least significant byte first
Chunk_as_bytes_le_length(c) ==
    <<ByteOf(c.length, 0), ByteOf(c.length, 1), ByteOf(c.length, 2), ByteOf(c.length, 3)>>
        \o ChunkType_bytes(c.chunk_type) \o c.chunk_data \o to_be_bytes(c.crc)

Chunk_as_bytes(c) ==
    to_be_bytes(c.length) \o ChunkType_bytes(c.chunk_type)
        \o c.chunk_data \o to_be_bytes(c.crc)

\* Chunk_try_from with the checksum taken over the payload alone
Chunk_try_from_crc_over_data(b) ==
    IF Len(b) < CHUNK_SIZE THEN Panic("bytes[0..CHUNK_SIZE]")
    ELSE
    LET length == from_be_bytes(u8_4_from_slice(SubSeq(b, 1, CHUNK_SIZE)))
    IN  IF Len(b) # as_usize(length) + 3 * CHUNK_SIZE THEN Err(ErrLength)
        ELSE
        LET t == ChunkType_try_from(
                     u8_4_from_slice(SubSeq(b, CHUNK_SIZE + 1, 2 * CHUNK_SIZE)))
        IN  IF t.tag = "Err" THEN Panic("ChunkType::try_from(..).unwrap()")
            ELSE
            LET chunk_data == SubSeq(b, 2 * CHUNK_SIZE + 1, Len(b) - CHUNK_SIZE)
                crc == from_be_bytes(u8_4_from_slice(
                           SubSeq(b, Len(b) - CHUNK_SIZE + 1, Len(b))))
            IN  IF checksum_32(chunk_data) # crc THEN Err(ErrCrc)
                ELSE Ok([length     |-> length,
                         chunk_type |-> t.val,
                         chunk_data |-> chunk_data,
                         crc        |-> crc])

\* Chunk_try_from with the type code read before the length is verified
Chunk_try_from_type_first(b) ==
    IF Len(b) < 2 * CHUNK_SIZE THEN Panic("bytes[CHUNK_SIZE..2 * CHUNK_SIZE]")
    ELSE
    LET length == from_be_bytes(u8_4_from_slice(SubSeq(b, 1, CHUNK_SIZE)))
        t == ChunkType_try_from(
                 u8_4_from_slice(SubSeq(b, CHUNK_SIZE + 1, 2 * CHUNK_SIZE)))
    IN  IF t.tag = "Err" THEN Panic("ChunkType::try_from(..).unwrap()")
        ELSE IF Len(b) # as_usize(length) + 3 * CHUNK_SIZE THEN Err(ErrLength)
        ELSE
        LET chunk_data == SubSeq(b, 2 * CHUNK_SIZE + 1, Len(b) - CHUNK_SIZE)
            crc == from_be_bytes(u8_4_from_slice(
                       SubSeq(b, Len(b) - CHUNK_SIZE + 1, Len(b))))
        IN  IF checksum_32(ChunkType_bytes(t.val) \o chunk_data) # crc
            THEN Err(ErrCrc)
            ELSE Ok([length     |-> length,
                     chunk_type |-> t.val,
                     chunk_data |-> chunk_data,
                     crc        |-> crc])

Chunk_try_from(b) ==
    IF Len(b) < CHUNK_SIZE THEN Panic("bytes[0..CHUNK_SIZE]")
    ELSE
    LET length == from_be_bytes(u8_4_from_slice(SubSeq(b, 1, CHUNK_SIZE)))
    IN  IF Len(b) # as_usize(length) + 3 * CHUNK_SIZE THEN Err(ErrLength)
        ELSE
        LET t == ChunkType_try_from(
                     u8_4_from_slice(SubSeq(b, CHUNK_SIZE + 1, 2 * CHUNK_SIZE)))
        IN  IF t.tag = "Err" THEN Panic("ChunkType::try_from(..).unwrap()")
            ELSE
            LET chunk_type == t.val
                chunk_data == SubSeq(b, 2 * CHUNK_SIZE + 1, Len(b) - CHUNK_SIZE)
                crc == from_be_bytes(u8_4_from_slice(
                           SubSeq(b, Len(b) - CHUNK_SIZE + 1, Len(b))))
                to_check == ChunkType_bytes(chunk_type) \o chunk_data
            IN  IF checksum_32(to_check) # crc THEN Err(ErrCrc)
                ELSE Ok([length     |-> length,
                         chunk_type |-> chunk_type,
                         chunk_data |-> chunk_data,
                         crc        |-> crc])

----------------------------------------------------------------------------
(* Png: the 8-byte signature and an ordered sequence of chunks.  A Png is   *)
(* modelled as the sequence of its chunks.                                 *)

STANDARD_HEADER == <<137, 80, 78, 71, 13, 10, 26, 10>>

ErrSignature == "BadSignature"

ErrNotFound == "ChunkNotFound"

SignatureSize == Len(STANDARD_HEADER)

RECURSIVE ParseChunks(_, _, _)
\* the chunks of b from index i on, read one after the other
ParseChunks(b, i, acc) ==
    IF i > Len(b) THEN Ok(acc)
    ELSE IF Len(b) - i + 1 < CHUNK_SIZE THEN Err(ErrLength)
    ELSE
    LET length == from_be_bytes(u8_4_from_slice(SubSeq(b, i, i + CHUNK_SIZE - 1)))
        total  == as_usize(length) + 3 * CHUNK_SIZE
    IN  IF i + total - 1 > Len(b) THEN Err(ErrLength)
        ELSE LET r == Chunk_try_from(SubSeq(b, i, i + total - 1))
             IN  IF r.tag # "Ok" THEN r
                 ELSE ParseChunks(b, i + total, Append(acc, r.val))

Png_try_from(b) ==
    IF Len(b) < SignatureSize \/ SubSeq(b, 1, SignatureSize) # STANDARD_HEADER
    THEN Err(ErrSignature)
    ELSE ParseChunks(b, SignatureSize + 1, <<>>)

RECURSIVE ChunksBytes(_)
ChunksBytes(chunks) ==
    IF chunks = <<>> THEN <<>>
    ELSE Chunk_as_bytes(Head(chunks)) \o ChunksBytes(Tail(chunks))

Png_as_bytes(chunks) == STANDARD_HEADER \o ChunksBytes(chunks)

Png_append_chunk(chunks, c) == Append(chunks, c)

\* the positions of the chunks whose type code reads as the string s
Matches(chunks, s) ==
    {i \in 1..Len(chunks) : ChunkType_to_string(chunks[i].chunk_type) = Ok(s)}

Min(S) == CHOOSE i \in S : \A j \in S : i <= j

Png_chunk_by_type(chunks, s) ==
    IF Matches(chunks, s) = {} THEN None
    ELSE Some(chunks[Min(Matches(chunks, s))])

\* Png_remove_chunk that fills the gap with the last chunk (Vec::swap_remove)
Png_remove_chunk_swap_remove(chunks, s) ==
    IF Matches(chunks, s) = {}
    THEN [png |-> chunks, res |-> Err(ErrNotFound)]
    ELSE LET k == Min(Matches(chunks, s))
         IN  [png |-> [i \in 1..(Len(chunks) - 1) |->
                          IF i = k THEN chunks[Len(chunks)] ELSE chunks[i]],
              res |-> Ok(<<>>)]

\* the sequence after the call, and the call's result
Png_remove_chunk(chunks, s) ==
    IF Matches(chunks, s) = {}
    THEN [png |-> chunks, res |-> Err(ErrNotFound)]
    ELSE LET k == Min(Matches(chunks, s))
         IN  [png |-> SubSeq(chunks, 1, k - 1) \o SubSeq(chunks, k + 1, Len(chunks)),
              res |-> Ok(<<>>)]

----------------------------------------------------------------------------
(* Inputs of the codec exercise *)

MaxData == 2

\* 'a', the two bytes of the UTF-8 form of U+00E9, and a byte no UTF-8 text has
DataBytes == {97, 169, 195, 255}

Payloads == UNION {[1..n -> DataBytes] : n \in 0..MaxData}

\* "RuSt", "ruSt", and arrays with a byte that is no letter: "Ru1t", "R[St",
\* "Ru`t", and a NUL
TypeArrays ==
    {<<82, 117, 83, 116>>, <<114, 117, 83, 116>>,
     <<82, 117, 49, 116>>, <<82, 91, 83, 116>>, <<82, 117, 96, 116>>,
     <<0, 117, 83, 116>>}

\* "RuSt", "rust", and the malformed "Ru1t" and "Ru"
TypeStrings ==
    {<<82, 117, 83, 116>>, <<114, 117, 115, 116>>, <<82, 117, 49, 116>>, <<82, 117>>}

\* the texts "", "a", "\u{e9}", "a\u{e9}" and "\u{20ac}"
Texts == {<<>>, <<97>>, <<233>>, <<97, 233>>, <<8364>>}

\* length fields: the right one, one too many, one too few, and 256
LenFields(p) ==
    {to_be_bytes(as_u32(Len(p))), to_be_bytes(as_u32(Len(p) + 1)), <<0, 0, 1, 0>>}
        \cup (IF Len(p) > 0 THEN {to_be_bytes(as_u32(Len(p) - 1))} ELSE {})

\* crc fields: the right one, the right one with its lowest bit flipped, zero
CrcFields(t, p) ==
    {to_be_bytes(checksum_32(t \o p)),
     to_be_bytes(Xor(checksum_32(t \o p), {0})),
     <<0, 0, 0, 0>>}

Framed ==
    UNION {UNION {{l \o t \o p \o c : l \in LenFields(p), c \in CrcFields(t, p)}
                  : t \in TypeArrays} : p \in Payloads}

\* every proper prefix of a well-formed chunk (the empty slice included)
Truncated ==
    UNION {{SubSeq(Chunk_as_bytes(Chunk_new(t, <<97>>)), 1, n) : n \in 0..12}
           : t \in {<<82, 117, 83, 116>>}}

\* the chunk of the repository's tests: length 42, "RuSt", the message
\* "This is where your secret message will be!", crc 2882656334; and the
\* same with crc 2882656333
TestingMessage ==
    <<84, 104, 105, 115, 32, 105, 115, 32, 119, 104, 101, 114, 101, 32, 121,
      111, 117, 114, 32, 115, 101, 99, 114, 101, 116, 32, 109, 101, 115, 115,
      97, 103, 101, 32, 119, 105, 108, 108, 32, 98, 101, 33>>

TestingChunks ==
    {<<0, 0, 0, 42, 82, 117, 83, 116>> \o TestingMessage \o <<171, 209, 216, 78>>,
     <<0, 0, 0, 42, 82, 117, 83, 116>> \o TestingMessage \o <<171, 209, 216, 77>>}

ChunkInputs == Framed \cup Truncated \cup TestingChunks

----------------------------------------------------------------------------
(* The codec exercise: a slice is parsed, or a chunk is built, serialized   *)
(* and parsed back.                                                        *)

InitChunk ==
    /\ pc = "start"
    /\ bytes \in ChunkInputs
    /\ chunk = None
    /\ parsed = None
    /\ file = <<>>
    /\ png = None
    /\ last = [op |-> "none"]

\* Chunk::new on a type code that ChunkType::try_from accepted (a chunk is
\* built where no slice was handed in)
ChunkNew(t, p) ==
    /\ pc = "start"
    /\ bytes = <<>>
    /\ ChunkType_try_from(t).tag = "Ok"
    /\ chunk' = Some(Chunk_new(ChunkType_try_from(t).val, p))
    /\ bytes' = <<>>
    /\ pc' = "built"
    /\ UNCHANGED <<parsed, file, png, last>>

\* Chunk::as_bytes of the chunk built
ChunkAsBytes ==
    /\ pc = "built"
    /\ bytes' = Chunk_as_bytes(chunk.val)
    /\ pc' = "serialized"
    /\ UNCHANGED <<chunk, parsed, file, png, last>>

\* Chunk::try_from on the slice
ChunkTryFrom ==
    /\ pc \in {"start", "serialized"}
    /\ parsed' = Some(Chunk_try_from(bytes))
    /\ pc' = "parsed"
    /\ UNCHANGED <<bytes, chunk, file, png, last>>

\* Chunk::from_strings
ChunkFromStrings(t, s) ==
    /\ pc = "start"
    /\ bytes = <<>>
    /\ LET r == Chunk_from_strings(t, s)
       IN  /\ last' = [op |-> "from_strings", t |-> t, s |-> s, res |-> r]
           /\ chunk' = IF r.tag = "Ok" THEN Some(r.val) ELSE None
           /\ pc' = IF r.tag = "Ok" THEN "built" ELSE "failed"
    /\ UNCHANGED <<bytes, parsed, file, png>>

\* Chunk::as_bytes of a chunk that Chunk::try_from returned for a slice
ChunkAsBytesParsed ==
    /\ pc = "parsed"
    /\ ~chunk.some
    /\ parsed.val.tag = "Ok"
    /\ last' = [op |-> "as_bytes", out |-> Chunk_as_bytes(parsed.val.val)]
    /\ pc' = "reserialized"
    /\ UNCHANGED <<bytes, chunk, parsed, file, png>>

\* Chunk::data_as_string of the chunk built, or of the chunk parsed from a
\* slice; the text given to from_strings, if that built the chunk, is kept
\* with the result
ChunkDataAsString ==
    /\ \/ pc = "built"
       \/ pc = "parsed" /\ ~chunk.some /\ parsed.val.tag = "Ok"
    /\ LET c == IF pc = "built" THEN chunk.val ELSE parsed.val.val
       IN  last' = [op |-> "data_as_string", of |-> c,
                    text |-> IF last.op = "from_strings" THEN Some(last.s) ELSE None,
                    res |-> Chunk_data_as_string(c)]
    /\ pc' = "read"
    /\ UNCHANGED <<bytes, chunk, parsed, file, png>>

NextChunk ==
    \/ \E t \in TypeArrays, p \in Payloads : ChunkNew(t, p)
    \/ \E t \in TypeStrings, s \in Texts : ChunkFromStrings(t, s)
    \/ ChunkAsBytes
    \/ ChunkTryFrom
    \/ ChunkAsBytesParsed
    \/ ChunkDataAsString

SpecChunk == InitChunk /\ [][NextChunk]_vars

----------------------------------------------------------------------------
(* Properties of the chunk codec *)

\* the slice has at least the 12 bytes of an empty chunk and its length field
\* equals its payload's length
ConsistentLength(b) ==
    /\ Len(b) >= 3 * CHUNK_SIZE
    /\ to_be_bytes(as_u32(Len(b) - 3 * CHUNK_SIZE)) = SubSeq(b, 1, CHUNK_SIZE)

TypeField(b) == SubSeq(b, CHUNK_SIZE + 1, 2 * CHUNK_SIZE)

AllLetters(t) == \A i \in 1..Len(t) : t[i] \in (65..90) \cup (97..122)

\* the trailing 4 bytes are the CRC-32 of everything between the length field
\* and them
CrcFieldRight(b) ==
    SubSeq(b, Len(b) - CHUNK_SIZE + 1, Len(b))
        = to_be_bytes(checksum_32(SubSeq(b, CHUNK_SIZE + 1, Len(b) - CHUNK_SIZE)))

\* C1: parsing as_bytes of Chunk::new(t, p) succeeds and yields a chunk equal
\* to Chunk::new(t, p) in length, type code, payload and crc, for every valid
\* type code and every payload, the empty one included.
C1_ChunkRoundTrip ==
    (pc = "parsed" /\ chunk.some) => parsed = Some(Ok(chunk.val))

\* C1 witness: "RuSt" with an empty payload went through new, as_bytes and
\* try_from.
C1_Witness ==
    /\ pc = "parsed" /\ chunk.some
    /\ chunk.val.chunk_data = <<>>
    /\ bytes = <<0, 0, 0, 0, 82, 117, 83, 116, 212, 132, 9, 60>>
    /\ parsed.val.tag = "Ok"

\* C3: a slice with a consistent length field and a valid type code whose
\* trailing big-endian CRC is not the CRC-32 of type code and payload is
\* rejected with the checksum error; no chunk is returned.
C3_ChecksumMismatch ==
    (pc = "parsed" /\ ~chunk.some /\ ConsistentLength(bytes)
        /\ AllLetters(TypeField(bytes)) /\ ~CrcFieldRight(bytes))
    => parsed = Some(Err(ErrCrc))

\* C3 witness: a one-byte-payload slice whose crc differs from the right one
\* in its lowest bit only was parsed.
C3_Witness ==
    /\ pc = "parsed" /\ ~chunk.some
    /\ ConsistentLength(bytes) /\ AllLetters(TypeField(bytes))
    /\ Len(bytes) = 13
    /\ \E c \in CrcFields(TypeField(bytes), <<bytes[9]>>) :
          /\ c # <<0, 0, 0, 0>>
          /\ c # SubSeq(bytes, 10, 13)
          /\ c[1] = bytes[10] /\ c[2] = bytes[11] /\ c[3] = bytes[12]
    /\ parsed.val.tag = "Err"

\* C4: a slice with a consistent length field whose type code bytes include
\* one that is no ASCII letter makes Chunk parse return the invalid-type-code
\* error as a value.
C4_InvalidTypeCode ==
    (pc = "parsed" /\ ~chunk.some /\ ConsistentLength(bytes)
        /\ ~AllLetters(TypeField(bytes)))
    => parsed = Some(Err(ErrAscii))

\* C5: a slice (of at least the 4 bytes of a length field) whose length is
\* not its big-endian length field plus 12 is rejected with the length error,
\* whatever its type code and crc bytes are.
C5_MalformedChunk ==
    (pc = "parsed" /\ ~chunk.some /\ Len(bytes) >= CHUNK_SIZE
        /\ ~ConsistentLength(bytes))
    => parsed = Some(Err(ErrLength))

\* C5 witness: a slice wrong in its length field, with a type code byte that
\* is no letter and a crc that does not match, was parsed.
C5_Witness ==
    /\ pc = "parsed" /\ ~chunk.some
    /\ Len(bytes) >= 3 * CHUNK_SIZE /\ ~ConsistentLength(bytes)
    /\ ~AllLetters(TypeField(bytes))
    /\ ~CrcFieldRight(bytes)
    /\ parsed.val.tag = "Err"

\* C6: Chunk parse returns a chunk or an error value for every slice, the
\* empty slice and slices shorter than 4 or 12 bytes included; it never
\* aborts.
C6_ParseTotal ==
    pc = "parsed" => parsed.val.tag \in {"Ok", "Err"}

----------------------------------------------------------------------------
(* The session: a file is parsed into a Png, which is then appended to,     *)
(* searched, removed from and serialized.                                  *)

MaxChunks == 2

\* "" and "a"
Messages == {<<>>, <<97>>}

RuSt == <<82, 117, 83, 116>>

rust == <<114, 117, 115, 116>>

\* chunk lists of the files that parse
InitChunkLists ==
    {<<>>,
     <<Chunk_new(<<73, 72, 68, 82>>, <<0, 255>>)>>,
     <<Chunk_new(RuSt, <<97>>), Chunk_new(rust, <<>>)>>,
     <<Chunk_new(RuSt, <<>>), Chunk_new(RuSt, <<97>>)>>,
     <<Chunk_new(RuSt, <<97>>), Chunk_new(<<73, 72, 68, 82>>, <<0, 255>>),
       Chunk_new(RuSt, <<>>)>>,
     <<Chunk_new(<<73, 72, 68, 82>>, <<0, 255>>), Chunk_new(rust, <<97>>),
       Chunk_new(RuSt, <<>>), Chunk_new(rust, <<>>)>>}

GoodChunk == Chunk_as_bytes(Chunk_new(RuSt, <<97>>))

\* files that do not parse: too short for a signature, a wrong signature, a
\* chunk with a wrong crc, with a type code byte that is no letter, with a
\* length field that is too large or too small, a chunk cut short
BadFiles ==
    {<<>>,
     SubSeq(STANDARD_HEADER, 1, 7),
     <<0>> \o Tail(STANDARD_HEADER) \o GoodChunk,
     <<0>> \o Tail(STANDARD_HEADER) \o <<0, 0>>,
     STANDARD_HEADER \o GoodChunk \o <<0, 0, 0, 0>> \o RuSt \o <<0, 0, 0, 0>>,
     STANDARD_HEADER \o GoodChunk
         \o <<0, 0, 0, 0, 82, 117, 49, 116>> \o to_be_bytes(checksum_32(<<82, 117, 49, 116>>)),
     STANDARD_HEADER \o <<0, 0, 0, 0, 82, 117, 49, 116, 0, 0, 0, 0>>,
     STANDARD_HEADER \o GoodChunk \o <<0, 0, 0, 2>> \o SubSeq(GoodChunk, 5, 13),
     STANDARD_HEADER \o <<0, 0, 0, 0>> \o SubSeq(GoodChunk, 5, 13),
     STANDARD_HEADER \o GoodChunk \o SubSeq(GoodChunk, 1, 2),
     STANDARD_HEADER \o GoodChunk \o SubSeq(GoodChunk, 1, 12)}

InitFiles == {Png_as_bytes(l) : l \in InitChunkLists} \cup BadFiles

Init ==
    /\ pc = "file"
    /\ file \in InitFiles
    /\ png = None
    /\ last = [op |-> "none"]
    /\ bytes = <<>>
    /\ chunk = None
    /\ parsed = None

\* Png::try_from on the bytes of the file
PngTryFrom ==
    /\ pc = "file"
    /\ LET r == Png_try_from(file)
       IN  /\ last' = [op |-> "parse", res |-> r]
           /\ png' = IF r.tag = "Ok" THEN Some(r.val) ELSE None
           /\ pc' = IF r.tag = "Ok" THEN "loaded" ELSE "failed"
    /\ UNCHANGED <<file, bytes, chunk, parsed>>

\* Chunk::from_strings, then Png::append_chunk
AppendChunk(s, m) ==
    /\ pc = "loaded"
    /\ Len(png.val) < MaxChunks
    /\ LET c == Chunk_from_strings(s, m)
       IN  /\ png' = IF c.tag = "Ok" THEN Some(Png_append_chunk(png.val, c.val))
                     ELSE png
           /\ last' = [op |-> "append", arg |-> s, before |-> png.val, res |-> c]
    /\ UNCHANGED <<pc, file, bytes, chunk, parsed>>

\* Png::remove_chunk
RemoveChunk(s) ==
    /\ pc = "loaded"
    /\ LET r == Png_remove_chunk(png.val, s)
       IN  /\ png' = Some(r.png)
           /\ last' = [op |-> "remove", arg |-> s, before |-> png.val, res |-> r.res]
    /\ UNCHANGED <<pc, file, bytes, chunk, parsed>>

\* Png::chunk_by_type; when it follows a successful append, the appended
\* chunk and the sequence before that append are kept with the result
ChunkByType(s) ==
    /\ pc = "loaded"
    /\ last' = [op |-> "find", arg |-> s, before |-> png.val,
                res |-> Png_chunk_by_type(png.val, s),
                appended |-> IF last.op = "append" /\ last.res.tag = "Ok"
                             THEN Some(last.res.val) ELSE None,
                prior |-> IF last.op = "append" /\ last.res.tag = "Ok"
                          THEN last.before ELSE <<>>]
    /\ UNCHANGED <<pc, png, file, bytes, chunk, parsed>>

\* Png::as_bytes, Png::try_from on these bytes, and Png::as_bytes of the result
RoundTrip ==
    /\ pc = "loaded"
    /\ LET b == Png_as_bytes(png.val)
           r == Png_try_from(b)
       IN  last' = [op |-> "roundtrip", before |-> png.val, bytes |-> b, res |-> r,
                    again |-> IF r.tag = "Ok" THEN Png_as_bytes(r.val) ELSE <<>>]
    /\ UNCHANGED <<pc, png, file, bytes, chunk, parsed>>

Next ==
    \/ PngTryFrom
    \/ \E s \in TypeStrings, m \in Messages : AppendChunk(s, m)
    \/ \E s \in TypeStrings : RemoveChunk(s)
    \/ \E s \in TypeStrings : ChunkByType(s)
    \/ RoundTrip

Spec == Init /\ [][Next]_vars

----------------------------------------------------------------------------
(* Properties of the chunk sequence *)

\* the positions of the chunks whose 4 type code bytes are the bytes of s
OfType(chunks, s) == {i \in 1..Len(chunks) : chunks[i].chunk_type = str_bytes(s)}

Without(chunks, k) == [i \in 1..(Len(chunks) - 1) |->
                          IF i < k THEN chunks[i] ELSE chunks[i + 1]]

BadSignature(b) ==
    \/ Len(b) < 8
    \/ \E i \in 1..8 : b[i] # STANDARD_HEADER[i]

\* C2: every sequence reached from a parsed file by appends and removals
\* serializes to bytes that parse to an equal sequence (same chunks, same
\* order), and serializing that result gives the same bytes again.
C2_SequenceRoundTrip ==
    last.op = "roundtrip" =>
        /\ last.res = Ok(last.before)
        /\ last.again = last.bytes

\* C2 witness: a sequence of two or more chunks that is not the one the file
\* holds (it was appended to or removed from) went through the round trip.
C2_Witness ==
    /\ last.op = "roundtrip"
    /\ Len(last.before) >= 2
    /\ last.bytes # file
    /\ last.res.tag = "Ok"

\* C7: parsing a file is all-or-nothing: with a wrong signature it fails with
\* the signature error; with the right signature it either returns the whole
\* sequence (the one that serializes to the file) or, when an embedded chunk
\* fails its validation or the file ends in a partial chunk, fails with that
\* chunk's error as a value, returning no partial sequence.
C7_AllOrNothing ==
    last.op = "parse" =>
        IF BadSignature(file) THEN last.res = Err(ErrSignature)
        ELSE \/ last.res.tag = "Ok" /\ Png_as_bytes(last.res.val) = file
             \/ last.res.tag = "Err" /\ last.res.err \in {ErrLength, ErrAscii, ErrCrc}

\* C8: remove_by_type with a type string that no chunk of the sequence has
\* fails with ChunkNotFound and leaves the sequence, and so its
\* serialization, unchanged.
C8_RemoveNotFound ==
    (last.op = "remove" /\ OfType(last.before, last.arg) = {}) =>
        /\ last.res = Err(ErrNotFound)
        /\ png.val = last.before
        /\ Png_as_bytes(png.val) = Png_as_bytes(last.before)

\* C8 witness: a removal by "rust" failed on a sequence that holds chunks,
\* one of them of type "RuSt".
C8_Witness ==
    /\ last.op = "remove" /\ last.arg = rust
    /\ OfType(last.before, rust) = {} /\ OfType(last.before, RuSt) # {}
    /\ last.res.tag = "Err"

\* C9: when the sequence holds chunks of the given type, remove_by_type
\* succeeds and the sequence becomes the original with the first of them
\* deleted: every other chunk, later ones of the same type included, is kept
\* in order with its length, payload and crc.
C9_RemoveFirst ==
    (last.op = "remove" /\ OfType(last.before, last.arg) # {}) =>
        /\ last.res.tag = "Ok"
        /\ \E k \in OfType(last.before, last.arg) :
              /\ \A j \in OfType(last.before, last.arg) : k <= j
              /\ png.val = Without(last.before, k)

\* C9 witness: a removal from a sequence of three chunks whose first and last
\* are of the type, with different payloads, deleted the first and left the
\* other two, which differ, in the order they had.
C9_Witness ==
    /\ last.op = "remove" /\ last.res.tag = "Ok"
    /\ Len(last.before) = 3
    /\ OfType(last.before, last.arg) = {1, 3}
    /\ last.before[1] # last.before[3]
    /\ last.before[2] # last.before[3]
    /\ png.val = <<last.before[2], last.before[3]>>

\* a removal from the middle of a sequence of four chunks left the three
\* others in the order they had
C9_WitnessMiddle ==
    /\ last.op = "remove" /\ last.res.tag = "Ok"
    /\ Len(last.before) = 4
    /\ OfType(last.before, last.arg) = {2, 4}
    /\ png.val = <<last.before[1], last.before[3], last.before[4]>>

\* C10: find_by_type returns the first chunk in sequence order whose type
\* code reads as the given string, or not-found when there is none; append
\* places the chunk last, whatever the sequence holds; and find_by_type of
\* the type of a chunk just appended returns that chunk when no chunk of the
\* type was in the sequence before, and the first earlier one otherwise.
C10_FindFirst ==
    /\ last.op = "find" =>
          last.res = IF OfType(last.before, last.arg) = {} THEN None
                     ELSE Some(last.before[Min(OfType(last.before, last.arg))])
    /\ (last.op = "append" /\ last.res.tag = "Ok") =>
          /\ Len(png.val) = Len(last.before) + 1
          /\ png.val[Len(png.val)] = last.res.val
          /\ \A i \in 1..Len(last.before) : png.val[i] = last.before[i]
    /\ (last.op = "find" /\ last.appended.some
            /\ last.appended.val.chunk_type = str_bytes(last.arg)) =>
          last.res = IF OfType(last.prior, last.arg) = {}
                     THEN Some(last.appended.val)
                     ELSE Some(last.prior[Min(OfType(last.prior, last.arg))])

\* C10 witness: a chunk was appended to a sequence that held a different
\* chunk of its type, and the find that followed returned the earlier one.
C10_Witness ==
    /\ last.op = "find" /\ last.appended.some
    /\ last.appended.val.chunk_type = str_bytes(last.arg)
    /\ OfType(last.prior, last.arg) # {}
    /\ last.res.some
    /\ last.res.val # last.appended.val
    /\ last.before[Len(last.before)] = last.appended.val

----------------------------------------------------------------------------
(* The type code exercise: a ChunkType is made from a string or from a      *)
(* 4-byte array, and its flags are read.                                   *)

MaxStrLen == 4

\* 'R', 'z', '@', '{', and the 2-, 3- and 4-byte characters U+00E9, U+20AC,
\* U+1F600
StrChars == {82, 122, 64, 123, 233, 8364, 128512}

\* "RuSt", "Rust", "ruSt", "RUSt", "RuST", "Ru1t" of the repository's tests
TestTypeStrings ==
    {<<82, 117, 83, 116>>, <<82, 117, 115, 116>>, <<114, 117, 83, 116>>,
     <<82, 85, 83, 116>>, <<82, 117, 83, 84>>, <<82, 117, 49, 116>>}

StrInputs == UNION {[1..n -> StrChars] : n \in 0..MaxStrLen} \cup TestTypeStrings

\* the first and last letters of both cases, their neighbours, and a byte
\* above the ASCII range
ArrayBytes == {65, 90, 97, 122, 64, 91, 96, 123, 200}

ArrayInputs == [1..CHUNK_SIZE -> ArrayBytes] \cup TestTypeStrings

InitType ==
    /\ pc \in {"str", "array"}
    /\ bytes \in IF pc = "str" THEN StrInputs ELSE ArrayInputs
    /\ last = [op |-> "none"]
    /\ chunk = None
    /\ parsed = None
    /\ file = <<>>
    /\ png = None

\* ChunkType::from_str on the string
TypeFromStr ==
    /\ pc = "str"
    /\ last' = [op |-> "from_str", arg |-> bytes, res |-> ChunkType_from_str(bytes)]
    /\ pc' = "typed"
    /\ UNCHANGED <<bytes, chunk, parsed, file, png>>

\* ChunkType::try_from on the array, bytes() of the result, and
\* ChunkType::from_str on the string of the same 4 bytes cast to char
TypeTryFrom ==
    /\ pc = "array"
    /\ LET r == ChunkType_try_from(bytes)
       IN  last' = [op |-> "try_from", arg |-> bytes, res |-> r,
                    bytes |-> IF r.tag = "Ok" THEN ChunkType_bytes(r.val) ELSE <<>>,
                    via_str |-> ChunkType_from_str(bytes)]
    /\ pc' = "typed"
    /\ UNCHANGED <<bytes, chunk, parsed, file, png>>

\* the flag queries on the type code made
TypeFlags ==
    /\ pc = "typed"
    /\ last.res.tag = "Ok"
    /\ LET t == last.res.val
       IN  last' = [op |-> "flags", t |-> t,
                    is_critical |-> ChunkType_is_critical(t),
                    is_public |-> ChunkType_is_public(t),
                    is_reserved_bit_valid |-> ChunkType_is_reserved_bit_valid(t),
                    is_safe_to_copy |-> ChunkType_is_safe_to_copy(t),
                    is_valid |-> ChunkType_is_valid(t)]
    /\ pc' = "flagged"
    /\ UNCHANGED <<bytes, chunk, parsed, file, png>>

NextType == TypeFromStr \/ TypeTryFrom \/ TypeFlags

SpecType == InitType /\ [][NextType]_vars

----------------------------------------------------------------------------
(* Properties of the type code *)

Upper(b) == b \in 65..90

Lower(b) == b \in 97..122

\* the number of bytes of the UTF-8 form of a code point
CharWidth(c) == IF c < 128 THEN 1 ELSE IF c < 2048 THEN 2 ELSE IF c < 65536 THEN 3 ELSE 4

RECURSIVE ByteLength(_)
ByteLength(s) == IF s = <<>> THEN 0 ELSE CharWidth(Head(s)) + ByteLength(Tail(s))

\* C11: from_str succeeds exactly for the strings that are 4 bytes long and
\* made of ASCII letters only (then giving these 4 bytes); every string of
\* another byte length, and every 4-byte string with a character that is no
\* letter, multi-byte characters included, is rejected with an
\* invalid-type-code error.
C11_FromStrExact ==
    last.op = "from_str" =>
        IF ByteLength(last.arg) = 4 /\ \A i \in 1..Len(last.arg) :
                                          Upper(last.arg[i]) \/ Lower(last.arg[i])
        THEN last.res = Ok(last.arg)
        ELSE last.res.tag = "Err" /\ last.res.err \in {ErrTypeLen, ErrAscii}

\* C11 witness: a string of two 2-byte characters (4 bytes, no letter) was
\* rejected.
C11_Witness ==
    /\ last.op = "from_str"
    /\ last.arg = <<233, 233>>
    /\ last.res.tag = "Err"

\* C12: try_from on a 4-byte array succeeds exactly when every byte is an
\* ASCII letter; then bytes() returns the same 4 bytes, case unchanged, and
\* the result equals from_str of the same 4 characters.
C12_TryFromExact ==
    last.op = "try_from" =>
        /\ last.res.tag = "Ok" <=> \A i \in 1..4 : Upper(last.arg[i]) \/ Lower(last.arg[i])
        /\ last.res.tag \in {"Ok", "Err"}
        /\ last.res.tag = "Ok" =>
              /\ \A i \in 1..4 : last.bytes[i] = last.arg[i]
              /\ Len(last.bytes) = 4
              /\ last.via_str = last.res

\* C12 witness: an array of letters of both cases was accepted.
C12_Witness ==
    /\ last.op = "try_from"
    /\ last.res.tag = "Ok"
    /\ Lower(last.arg[1]) /\ Upper(last.arg[2])

\* C13: is_critical iff byte 0 is upper case, is_public iff byte 1 is,
\* is_reserved_bit_valid iff byte 2 is, is_safe_to_copy iff byte 3 is lower
\* case, and is_valid iff byte 1 is lower case and byte 2 upper case,
\* whatever bytes 0 and 3 are; "RuSt" is valid and "Rust" is not.
C13_Flags ==
    last.op = "flags" =>
        /\ last.is_critical = Upper(last.t[1])
        /\ last.is_public = Upper(last.t[2])
        /\ last.is_reserved_bit_valid = Upper(last.t[3])
        /\ last.is_safe_to_copy = Lower(last.t[4])
        /\ last.is_valid = (Lower(last.t[2]) /\ Upper(last.t[3]))
        /\ last.t = <<82, 117, 83, 116>> => last.is_valid
        /\ last.t = <<82, 117, 115, 116>> => ~last.is_valid

\* C13 witness: the flags of a type code that is public and reserved-bit
\* valid, and so not valid, were read.
C13_Witness ==
    /\ last.op = "flags"
    /\ Upper(last.t[2]) /\ Upper(last.t[3])
    /\ ~last.is_valid

----------------------------------------------------------------------------
(* Further properties of the chunk codec *)

\* C14: for every slice that Chunk parse accepts, the chunk returned carries
\* the length, type code, payload and crc exactly as they stand in the slice,
\* and as_bytes of that chunk is the slice again.
C14_ParseThenSerialize ==
    pc = "reserialized" =>
        /\ to_be_bytes(parsed.val.val.length) = SubSeq(bytes, 1, 4)
        /\ parsed.val.val.chunk_type = SubSeq(bytes, 5, 8)
        /\ parsed.val.val.chunk_data = SubSeq(bytes, 9, Len(bytes) - 4)
        /\ to_be_bytes(parsed.val.val.crc) = SubSeq(bytes, Len(bytes) - 3, Len(bytes))
        /\ last.out = bytes

\* C14 witness: the chunk of the repository's tests (42 bytes of payload, crc
\* 2882656334) was parsed and serialized again.
C14_Witness ==
    /\ pc = "reserialized"
    /\ Len(bytes) = 54
    /\ SubSeq(bytes, 51, 54) = <<171, 209, 216, 78>>
    /\ Len(last.out) = 54

\* crc is the CRC-32 of the type code bytes followed by the payload (the
\* length field left out), and length is the number of payload bytes
ChunkConsistent(c) ==
    /\ c.crc = checksum_32(c.chunk_type \o c.chunk_data)
    /\ to_be_bytes(c.length) = <<0, 0, 0, Len(c.chunk_data)>>

\* C15: every chunk that Chunk::new, Chunk::from_strings or a successful
\* parse gives has crc = CRC-32/ISO-HDLC(type code ++ payload) and length =
\* number of payload bytes ("RuSt" with no payload has crc 0xD484093C, with
\* the tests' message 0xABD1D84E).
C15_ChunkInvariant ==
    /\ chunk.some => ChunkConsistent(chunk.val)
    /\ (parsed.some /\ parsed.val.tag = "Ok") => ChunkConsistent(parsed.val.val)
    /\ (chunk.some /\ chunk.val.chunk_type = <<82, 117, 83, 116>>
            /\ chunk.val.chunk_data = <<>>)
        => to_be_bytes(chunk.val.crc) = <<212, 132, 9, 60>>
    /\ (parsed.some /\ parsed.val.tag = "Ok"
            /\ parsed.val.val.chunk_data = TestingMessage)
        => to_be_bytes(parsed.val.val.crc) = <<171, 209, 216, 78>>

\* C15 witness: a chunk made by from_strings with a 3-byte payload was
\* serialized and parsed, the parse giving a chunk.
C15_Witness ==
    /\ pc = "parsed" /\ chunk.some
    /\ last.op = "from_strings"
    /\ Len(chunk.val.chunk_data) = 3
    /\ parsed.val.tag = "Ok"

\* the payloads of the exercise that are UTF-8 text: ASCII bytes only, or the
\* encoding of a text over 'a', U+00E9 and U+20AC
ValidUtf8(d) ==
    \/ \A i \in 1..Len(d) : d[i] < 128
    \/ \E n \in 0..Len(d) : \E s \in [1..n -> {97, 233, 8364}] : str_bytes(s) = d

\* C16: from_strings with a valid 4-letter type string succeeds for every
\* text, the payload being the UTF-8 bytes of the text, and data_as_string
\* then returns the text unchanged; from_strings fails with an
\* invalid-type-code error on a malformed type string; data_as_string fails
\* with the text decoding error whenever the payload is not valid UTF-8.
C16_Text ==
    /\ last.op = "from_strings" =>
          IF Len(last.t) = 4 /\ \A i \in 1..Len(last.t) : Upper(last.t[i]) \/ Lower(last.t[i])
          THEN /\ last.res.tag = "Ok"
               /\ last.res.val.chunk_type = last.t
               /\ Len(last.res.val.chunk_data) = ByteLength(last.s)
               /\ from_utf8(last.res.val.chunk_data) = Ok(last.s)
               /\ last.s = <<233>> => last.res.val.chunk_data = <<195, 169>>
          ELSE /\ last.res.tag = "Err"
               /\ last.res.err \in {ErrTypeLen, ErrAscii}
               /\ ~chunk.some
    /\ (last.op = "data_as_string" /\ last.text.some) =>
          last.res = Ok(last.text.val)
    /\ (last.op = "data_as_string" /\ ~ValidUtf8(last.of.chunk_data)) =>
          last.res = Err("FromUtf8Error")
    /\ (last.op = "data_as_string" /\ last.res.tag = "Ok") =>
          str_bytes(last.res.val) = last.of.chunk_data

\* C16 witness: the text "a" followed by U+00E9 went through from_strings and
\* data_as_string.
C16_Witness ==
    /\ last.op = "data_as_string"
    /\ last.text = Some(<<97, 233>>)
    /\ last.of.chunk_data = <<97, 195, 169>>
    /\ last.res.tag = "Ok"

\* a payload that is no UTF-8 text (a lead byte with nothing after it) was
\* read with data_as_string, which failed
C16_WitnessInvalid ==
    /\ last.op = "data_as_string"
    /\ last.of.chunk_data = <<97, 195>>
    /\ last.res.tag = "Err"

----------------------------------------------------------------------------
(* The commands: encode reads the file, appends a chunk and writes the file *)
(* (or the output file); remove reads the file, removes a chunk and writes  *)
(* it back. Here `file` is the content of file_path and `bytes` the content *)
(* of the output file.                                                     *)

\* commands::encode on a file with content f: the command's result and what
\* it writes where, if it gets to write
encode(f, chunk_type, message, output_file) ==
    LET p == Png_try_from(f)
    IN  IF p.tag # "Ok" THEN [res |-> p, write |-> None]
        ELSE
        LET c == Chunk_from_strings(chunk_type, message)
        IN  IF c.tag # "Ok" THEN [res |-> c, write |-> None]
            ELSE [res   |-> Ok(<<>>),
                  write |-> Some([to   |-> IF output_file.some THEN output_file.val
                                           ELSE "file_path",
                                  data |-> Png_as_bytes(Png_append_chunk(p.val, c.val))])]

\* commands::remove that leaves out the write
remove_without_write(f, chunk_type) ==
    LET p == Png_try_from(f)
    IN  IF p.tag # "Ok" THEN [res |-> p, write |-> None]
        ELSE [res |-> Png_remove_chunk(p.val, chunk_type).res, write |-> None]

\* commands::remove on a file with content f
remove(f, chunk_type) ==
    LET p == Png_try_from(f)
    IN  IF p.tag # "Ok" THEN [res |-> p, write |-> None]
        ELSE
        LET r == Png_remove_chunk(p.val, chunk_type)
        IN  IF r.res.tag # "Ok" THEN [res |-> r.res, write |-> None]
            ELSE [res   |-> Ok(<<>>),
                  write |-> Some([to |-> "file_path", data |-> Png_as_bytes(r.png)])]

\* the chunks of the files the commands start from
CmdChunks == {Chunk_new(RuSt, <<>>), Chunk_new(RuSt, <<97>>), Chunk_new(rust, <<97>>)}

CmdFiles ==
    {Png_as_bytes(l) : l \in UNION {[1..n -> CmdChunks] : n \in 0..MaxChunks}}
        \cup BadFiles

InitCmd ==
    /\ pc = "shell"
    /\ file \in CmdFiles
    /\ bytes = <<>>
    /\ png = None
    /\ chunk = None
    /\ parsed = None
    /\ last = [op |-> "none"]

\* pngchat encode file_path chunk_type message [output_file]
CmdEncode(t, m, o) ==
    /\ pc = "shell"
    /\ LET r == encode(file, t, m, o)
       IN  /\ file' = IF r.write.some /\ r.write.val.to = "file_path"
                      THEN r.write.val.data ELSE file
           /\ bytes' = IF r.write.some /\ r.write.val.to = "output_file"
                       THEN r.write.val.data ELSE bytes
           /\ last' = [op |-> "cmd_encode", t |-> t, m |-> m, before |-> file,
                       to |-> IF o.some THEN o.val ELSE "file_path", res |-> r.res]
    /\ pc' = "encoded"
    /\ UNCHANGED <<png, chunk, parsed>>

\* pngchat remove path chunk_type, on file_path or on the output file that
\* encode has written
CmdRemove(t, path) ==
    /\ pc = "encoded"
    /\ path = "output_file" => (last.to = "output_file" /\ last.res.tag = "Ok")
    /\ LET r == remove(IF path = "output_file" THEN bytes ELSE file, t)
       IN  /\ file' = IF r.write.some /\ path = "file_path" THEN r.write.val.data ELSE file
           /\ bytes' = IF r.write.some /\ path = "output_file" THEN r.write.val.data
                       ELSE bytes
           /\ last' = [op |-> "cmd_remove", t |-> t, path |-> path, res |-> r.res,
                       encoded |-> IF last.res.tag = "Ok" /\ last.t = t /\ last.to = path
                                   THEN Some([before |-> last.before, m |-> last.m])
                                   ELSE None]
    /\ pc' = "removed"
    /\ UNCHANGED <<png, chunk, parsed>>

NextCmd ==
    \/ \E t \in TypeStrings, m \in Messages, o \in {None, Some("output_file")} :
          CmdEncode(t, m, o)
    \/ \E t \in TypeStrings, path \in {"file_path", "output_file"} : CmdRemove(t, path)

SpecCmd == InitCmd /\ [][NextCmd]_vars

----------------------------------------------------------------------------
(* Properties of the commands *)

\* C17: after an encode that succeeded and a remove with the same type
\* string on the file encode wrote, the remove succeeds; if the file encode
\* read held no chunk of that type, the file written has the bytes and the
\* chunk sequence it had before encode; if it held one, the file written is
\* the earlier sequence without its first chunk of that type, followed by
\* the newly encoded chunk.
C17_EncodeThenRemove ==
    (last.op = "cmd_remove" /\ last.encoded.some) =>
        LET before  == last.encoded.val.before
            chunks  == Png_try_from(before).val
            encoded == Chunk_new(last.t, str_bytes(last.encoded.val.m))
            now     == IF last.path = "output_file" THEN bytes ELSE file
        IN  /\ last.res.tag = "Ok"
            /\ IF OfType(chunks, last.t) = {}
               THEN /\ now = before
                    /\ Png_try_from(now) = Ok(chunks)
               ELSE \E k \in OfType(chunks, last.t) :
                       /\ \A j \in OfType(chunks, last.t) : k <= j
                       /\ Png_try_from(now) = Ok(Without(chunks, k) \o <<encoded>>)
                       /\ now = Png_as_bytes(Without(chunks, k) \o <<encoded>>)

\* C17 witness: "RuSt" was encoded into a file that held one "rust" chunk
\* and no "RuSt" chunk and was then removed; the file is as it was.
C17_Witness ==
    /\ last.op = "cmd_remove" /\ last.encoded.some
    /\ last.t = RuSt /\ last.path = "file_path"
    /\ last.encoded.val.before = Png_as_bytes(<<Chunk_new(rust, <<97>>)>>)
    /\ file = last.encoded.val.before

\* "RuSt" was encoded into a file that held a "RuSt" chunk with another
\* payload and then removed: the earlier chunk is gone, the new one is there
C17_WitnessExisting ==
    /\ last.op = "cmd_remove" /\ last.encoded.some
    /\ last.t = RuSt /\ last.encoded.val.m = <<97>>
    /\ last.encoded.val.before = Png_as_bytes(<<Chunk_new(RuSt, <<>>)>>)
    /\ file = Png_as_bytes(<<Chunk_new(RuSt, <<97>>)>>)

=============================================================================
